---- MODULE Spec2Model ----
(***************************************************************************)
(* The batch scripts of this repository as one state machine:              *)
(*   src/ipfs-to-cdn-apes-json.py   ("apes_json")                          *)
(*   src/ipfs-to-cdn-hogs-json.py   ("hogs_json")                          *)
(*   src/ipfs-to-cdn-hogs.py        ("hogs", the image script)             *)
(*   src/csv-to-json-to-cdn-hog.py  ("csv")                                *)
(* Spec          one invocation of one IPFS script; every network request  *)
(*               is one step, its answer an input drawn by the environment *)
(* SpecTwice     a second invocation with the same arguments against the   *)
(*               same destination                                          *)
(* SpecInterrupt Spec with the user's Ctrl-C                               *)
(* SpecCsv       one invocation of the CSV script: the main thread and the *)
(*               workers of its pool, interleaved                          *)
(* SpecKey       the derivation of the destination key on its own          *)
(***************************************************************************)
EXTENDS Integers, FiniteSets, Sequences, TLC

\* ------------------------------------------------------------ bounds
\* Largest item id the model's --start-number/--end-number/--resume-from reach.
MaxId == 4
\* Largest --max-missing the model draws.
MaxMissing == 2

Ids == 1..MaxId
\* Largest number of data lines of the CSV file.
MaxRows == 2
\* Largest --concurrency the model draws.
MaxConcurrency == 2
\* Largest id of the contiguous range the key derivation is applied to.
MaxKeyId == 12

\* ------------------------------------------------------------ constants
\* len(DEFAULT_GATEWAYS), the default of --gateways
NumGateways == 3
\* DEFAULT_MAX_RETRIES, the default of --max-retries
DEFAULT_MAX_RETRIES == 3
\* DEFAULT_DELETE_LOCAL: --delete-local is store_true with default True, so
\* args.delete_local is True in every run.
DEFAULT_DELETE_LOCAL == TRUE

Scripts == {"apes_json", "hogs_json", "hogs"}

\* Scripts that have --skip-cdn-check and get_existing_files_on_cdn.
HasCdnCheck(s) == s \in {"hogs_json", "hogs"}

\* Strings the program builds are sequences of one-character strings.
\* File extension the script scans for: filename = f"{n}.json" / f"{n}.png".
Ext(s) == IF s = "hogs" THEN <<"p", "n", "g">> ELSE <<"j", "s", "o", "n">>

\* dest_prefix: args.dest_path.strip(), "/" appended when missing (defaults:
\* "ape_jsons/", "hog_jsons/", "hog_images/").
DestPrefix(s) ==
  CASE s = "apes_json" -> <<"a", "p", "e", "_", "j", "s", "o", "n", "s", "/">>
    [] s = "hogs_json" -> <<"h", "o", "g", "_", "j", "s", "o", "n", "s", "/">>
    [] OTHER -> <<"h", "o", "g", "_", "i", "m", "a", "g", "e", "s", "/">>

Digits == <<"0", "1", "2", "3", "4", "5", "6", "7", "8", "9">>

\* str(k) of a non-negative int: its decimal digits, most significant first.
RECURSIVE StrNat(_)
StrNat(k) ==
  IF k < 10 THEN <<Digits[k + 1]>>
  ELSE Append(StrNat(k \div 10), Digits[(k % 10) + 1])

\* Mutant of Str: the number is formatted by its last digit only.
StrLastDigit(k) == <<Digits[((IF k < 0 THEN -k ELSE k) % 10) + 1]>>

\* str(k) as the f-strings f"{n}.json", f"{n}.png" and str(edition) format an int.
Str(k) == IF k < 0 THEN <<"-">> \o StrNat(-k) ELSE StrNat(k)

\* key(p, x, e) = p + x + "." + e: f"{dest_prefix}{filename}" with
\* filename = f"{n}.{ext}", and f"{dest_prefix}{edition_str}.json".
Key(p, x, e) == p \o x \o <<".">> \o e

\* dest_key of item i in script s.
DestKey(s, i) == Key(DestPrefix(s), Str(i), Ext(s))

\* ------------------------------------------------------------ transport
\* Retry(status_forcelist=[429, 500, 502, 503, 504])
StatusForcelist == {"429", "500", "502", "503", "504"}

\* Retry(allowed_methods=...) of the script's make_session.
AllowedMethods(s) ==
  IF s \in {"apes_json", "csv"} THEN {"GET", "PUT"} ELSE {"GET", "PUT", "HEAD"}

\* What one session.get/put/head call gives its caller when the server's
\* lasting answer to the request is `answer` (a status, or no answer at all:
\* "timeout", "connerr").  The mounted HTTPAdapter retries a forcelist status
\* for an allowed method and, once the retries are used up, raises
\* (requests.exceptions.RetryError); a timeout or connection error raises too.
\* Every other status is returned as the response's status_code.
SessionRequest(s, method, answer) ==
  IF answer \in {"timeout", "connerr"}
    THEN [raised |-> TRUE, status_code |-> "none"]
  ELSE IF answer \in StatusForcelist /\ method \in AllowedMethods(s)
    THEN [raised |-> TRUE, status_code |-> "none"]
  ELSE [raised |-> FALSE, status_code |-> answer]

\* Answers the environment may give.
GetAnswers == {"200", "404", "403", "500", "timeout", "connerr"}
PutAnswers == {"200", "201", "403", "500", "timeout"}

VARIABLES
  script,              \* which script runs
  args,                \* the parsed command line
  pc,                  \* position of the run
  exit_code,           \* process exit status (-1 while running)
  start_number,        \* main's start_number (args.start_number or resume)
  n,                   \* loop variable of the scan loop
  h,                   \* loop variable of get_existing_files_on_cdn
  existing_files,      \* set returned by get_existing_files_on_cdn
  consecutive_missing,
  found_count,
  uploaded_count,
  skipped_count,
  errors_upload,
  attempt,             \* download_png: attempt
  gateway_idx,         \* download_png: gateway_idx
  tempdir,             \* TRUE while the mkdtemp directory exists
  files,               \* ids whose local copy exists in tempdir
  cdn,                 \* keys stored in the storage zone
  \* history of the run (not read by the program)
  item,                \* per-item state of the run
  req,                 \* the last request issued
  heads, gets, puts,   \* ids a HEAD / GET / PUT was issued for in this run
  head_failed,         \* ids whose HEAD raised or was answered another status than 200
  run,                 \* 1 for the first invocation, 2 for the second
  first_uploaded,      \* ids whose PUT succeeded in the first invocation
  \* what the run wrote to its terminal / log
  printed,             \* kinds of lines printed so far
  summary,             \* the counts of the "Done." line, NoSummary before it
  interrupted,         \* TRUE once the user pressed Ctrl-C (KeyboardInterrupt)
  \* csv-to-json-to-cdn-hog.py
  csv_file,            \* the rows csv.DictReader yields for args.csv_file
  rows_to_process,     \* rows[start_idx:end_idx]
  futures,             \* state of the future of each submitted row
  results,             \* what process_nft_row returned for each row
  success_count,
  error_count,
  errors,              \* the list of "identifier: error" entries
  dest_keys,           \* history: the dest_key each row's PUT was issued for
  report,              \* the counts printed after "Processing complete!"
  contents,            \* the storage zone: for each stored key the row whose
                       \* metadata is the object at that key
  \* the key derivation on its own
  key_ids,             \* two ids
  keys,                \* the dest_key derived for each
  parsed               \* the id read back from each key

vars == <<script, args, pc, exit_code, start_number, n, h, existing_files,
          consecutive_missing, found_count, uploaded_count, skipped_count,
          errors_upload, attempt, gateway_idx, tempdir, files, cdn,
          item, req, heads, gets, puts, head_failed, run, first_uploaded,
          printed, summary, interrupted,
          csv_file, rows_to_process, futures, results, success_count,
          error_count, errors, dest_keys, report, contents, key_ids, keys,
          parsed>>

counters == <<consecutive_missing, found_count, uploaded_count, skipped_count,
              errors_upload>>
png == <<attempt, gateway_idx>>
\* State of the CSV script: no step of an IPFS script touches it.
csvv == <<csv_file, rows_to_process, futures, results, success_count,
          error_count, errors, dest_keys, report, contents>>
\* What no step of an IPFS run changes.
\* State of the key derivation taken on its own.
keyv == <<key_ids, keys, parsed>>
config == <<script, args, run, first_uploaded, csvv, keyv>>
output == <<printed, summary, interrupted>>

\* No "Done." line was printed.
NoSummary == [found |-> -1, uploaded |-> -1, skipped |-> -1, upload_errors |-> -1]
\* No "Processing complete!" block was printed.
NoReport == [uploaded |-> -1, errors |-> -1, listed |-> -1]

NoReq == [kind |-> "none", id |-> 0, answer |-> "none", attempt |-> 0, gateway_idx |-> 0]

\* Per-item states: "Pending", "Skipped", "Missing", "Fetched", "Uploaded",
\* "UploadFailed"; these are the ones an item stays in.
Terminal == {"Skipped", "Missing", "Uploaded", "UploadFailed"}

\* The command lines the model draws.  resume_from = 0 stands for an absent
\* --resume-from (None) as well as for --resume-from 0: both are falsy.
ArgsSet(s) ==
  [ storage_zone   : {"", "zone"},
    access_key     : {"", "key"},
    start_number   : 1..2,
    end_number     : (MaxId - 1)..MaxId,
    max_missing    : 1..MaxMissing,
    skip_cdn_check : IF HasCdnCheck(s) THEN BOOLEAN ELSE {TRUE},
    resume_from    : IF s = "hogs" THEN {0, 1, 3, MaxId + 1} ELSE {0} ]

Init ==
  /\ script \in Scripts
  /\ args \in ArgsSet(script)
  /\ pc = "main"
  /\ exit_code = -1
  /\ start_number = 0
  /\ n = 0
  /\ h = 0
  /\ existing_files = {}
  /\ consecutive_missing = 0
  /\ found_count = 0
  /\ uploaded_count = 0
  /\ skipped_count = 0
  /\ errors_upload = 0
  /\ attempt = 0
  /\ gateway_idx = 0
  /\ tempdir = FALSE
  /\ files = {}
  \* the storage zone before the run: empty, or holding item 2 already
  /\ cdn \in {{}, {DestKey(script, 2)}}
  /\ item = [i \in Ids |-> "Pending"]
  /\ req = NoReq
  /\ heads = {}
  /\ gets = {}
  /\ puts = {}
  /\ head_failed = {}
  /\ run = 1
  /\ first_uploaded = {}
  /\ printed = {}
  /\ summary = NoSummary
  /\ interrupted = FALSE
  /\ csv_file = <<>>
  /\ rows_to_process = <<>>
  /\ futures = <<>>
  /\ results = <<>>
  /\ success_count = 0
  /\ error_count = 0
  /\ errors = <<>>
  /\ dest_keys = <<>>
  /\ report = NoReport
  /\ contents = <<>>
  /\ key_ids = <<0, 0>>
  /\ keys = <<>>
  /\ parsed = <<>>


\* ------------------------------------------------------------ helpers
\* "if not args.storage_zone or not args.access_key"
CredentialsMissing(a) == a.storage_zone = "" \/ a.access_key = ""

\* "start_number = args.resume_from if args.resume_from else args.start_number"
\* (the image script; the other scripts have no --resume-from and scan from
\* args.start_number).
StartNumber(s, a) ==
  IF s = "hogs" /\ a.resume_from # 0 THEN a.resume_from ELSE a.start_number

\* Mutant of ThresholdReached: "consecutive_missing > args.max_missing".
ThresholdReachedLate(cm, mm) == cm > mm

\* "if consecutive_missing >= args.max_missing: ... break"
ThresholdReached(cm, mm) == cm >= mm

\* Mutant of PutOk: "resp.status_code < 500".
PutOkBelow500(status_code) == status_code \in {"200", "201", "403"}

\* bunny_put's first result: resp.status_code in (200, 201)
PutOk(status_code) == status_code \in {"200", "201"}

\* Mutant of CheckFileExistsOnCdn: the except branch returns True.
CheckFileExistsOrRaised(r) == r.raised \/ r.status_code = "200"

\* check_file_exists_on_cdn: "return resp.status_code == 200", and False when
\* session.head raised (except Exception: ... return False).
CheckFileExistsOnCdn(r) == ~r.raised /\ r.status_code = "200"

\* Mutant of RemovesTempdir: "if args.delete_local".
RemovesTempdirAlways(eu) == DEFAULT_DELETE_LOCAL

\* "if errors_upload == 0 and args.delete_local: shutil.rmtree(tempdir)"
RemovesTempdir(eu) == eu = 0 /\ DEFAULT_DELETE_LOCAL

\* Answers a HEAD for item i may get.  hogs-json asks the storage API for the
\* key it later PUTs: the truth about the key, or a failure (the access key
\* refused, a 5xx, no answer).  The image script
\* asks the hard-coded public host https://baysed.b-cdn.net/{dest_key}, another
\* service than the storage API the PUT goes to: its answer is not tied to the
\* storage zone's content.
HeadAnswers(s, i) ==
  IF s = "hogs" THEN {"200", "404", "403", "500", "timeout"}
  ELSE (IF DestKey(s, i) \in cdn THEN {"200"} ELSE {"404"})
         \cup {"403", "500", "timeout"}

Request(kind, i, answer) ==
  [kind |-> kind, id |-> i, answer |-> answer,
   attempt |-> attempt, gateway_idx |-> gateway_idx]

\* Mutant of Authoritative404: the 404 branch is missing, a 404 is handled
\* like any other non-200 status.
Authoritative404Never(status_code) == FALSE

\* download_png: "elif r.status_code == 404: return False, 404"
Authoritative404(status_code) == status_code = "404"

\* download_png: the (attempt, gateway_idx) tried after (att, gw) failed
\* without a 200 or a 404: the next gateway of "for gateway_idx, gateway in
\* enumerate(gateways)", then gateway 0 of the next attempt.
NextTry(att, gw) ==
  IF gw + 1 < NumGateways THEN <<att, gw + 1>> ELSE <<att + 1, 0>>

\* download_png: "for attempt in range(max_retries)" is used up after (att, gw).
TriesExhausted(att, gw) == NextTry(att, gw)[1] >= DEFAULT_MAX_RETRIES

\* Mutant of NextIteration: the loop steps by two, "range(start, end + 1, 2)".
NextIterationByTwo ==
  IF n + 2 > args.end_number
    THEN pc' = "summary" /\ n' = n
    ELSE pc' = "loop" /\ n' = n + 2

\* The for loop takes its next value, or ends and falls through to the summary.
NextIteration ==
  IF n + 1 > args.end_number
    THEN pc' = "summary" /\ n' = n
    ELSE pc' = "loop" /\ n' = n + 1

\* An exception leaves main: apes-json catches KeyboardInterrupt only, the
\* other two log and re-raise ("except Exception as e: ... raise").  The
\* interpreter prints the traceback and exits with status 1; the summary and
\* the cleanup are not reached.
Raise ==
  /\ pc' = "exit"
  /\ exit_code' = 1

\* "if not ok:" branch of the scan loop.
Miss ==
  /\ consecutive_missing' = consecutive_missing + 1
  /\ item' = [item EXCEPT ![n] = "Missing"]
  /\ IF ThresholdReached(consecutive_missing + 1, args.max_missing)
       THEN pc' = "summary" /\ n' = n
       ELSE NextIteration
  /\ UNCHANGED <<found_count, uploaded_count, skipped_count, errors_upload,
                 files, exit_code>>

\* Mutant of Hit: "found_count += 1" is missing.
HitUncounted ==
  /\ files' = files \cup {n}
  /\ consecutive_missing' = 0
  /\ found_count' = found_count
  /\ item' = [item EXCEPT ![n] = "Fetched"]
  /\ pc' = "put"
  /\ UNCHANGED <<n, uploaded_count, skipped_count, errors_upload, exit_code>>

\* Mutant of Hit: "consecutive_missing = 0" is missing.
HitKeepsStreak ==
  /\ files' = files \cup {n}
  /\ consecutive_missing' = consecutive_missing
  /\ found_count' = found_count + 1
  /\ item' = [item EXCEPT ![n] = "Fetched"]
  /\ pc' = "put"
  /\ UNCHANGED <<n, uploaded_count, skipped_count, errors_upload, exit_code>>

\* "# got it": the body was written to local_path, the streak is reset.
Hit ==
  /\ files' = files \cup {n}
  /\ consecutive_missing' = 0
  /\ found_count' = found_count + 1
  /\ item' = [item EXCEPT ![n] = "Fetched"]
  /\ pc' = "put"
  /\ UNCHANGED <<n, uploaded_count, skipped_count, errors_upload, exit_code>>

\* ------------------------------------------------------------ actions
\* main up to the scan loop: credentials, start_number, mkdtemp, and whether
\* get_existing_files_on_cdn runs.
Start ==
  /\ pc = "main"
  /\ IF CredentialsMissing(args)
       THEN /\ pc' = "exit"
            /\ exit_code' = 1
            /\ UNCHANGED <<start_number, n, h, tempdir>>
       ELSE /\ start_number' = StartNumber(script, args)
            /\ tempdir' = TRUE
            /\ n' = start_number'
            /\ h' = start_number'
            /\ exit_code' = exit_code
            /\ pc' = IF start_number' > args.end_number THEN "summary"
                     ELSE IF HasCdnCheck(script) /\ ~args.skip_cdn_check THEN "head"
                     ELSE "loop"
  /\ UNCHANGED <<config, output, head_failed, existing_files, counters, png, files, cdn, item, req,
                 heads, gets, puts>>

\* One check_file_exists_on_cdn call of get_existing_files_on_cdn.  The batches
\* of 100 and the inner loop enumerate start_num..end_num once, ascending.
HeadCheck ==
  /\ pc = "head"
  /\ \E answer \in HeadAnswers(script, h) :
       LET r == SessionRequest(script, "HEAD", answer) IN
       /\ existing_files' = IF CheckFileExistsOnCdn(r)
                              THEN existing_files \cup {h} ELSE existing_files
       /\ req' = Request("HEAD", h, answer)
       /\ head_failed' = IF answer = "200" THEN head_failed ELSE head_failed \cup {h}
  /\ heads' = heads \cup {h}
  /\ IF h + 1 > args.end_number
       THEN pc' = "loop" /\ h' = h
       ELSE pc' = "head" /\ h' = h + 1
  /\ UNCHANGED <<config, output, exit_code, start_number, n, counters, png, tempdir,
                 files, cdn, item, gets, puts>>

\* Mutant of Skip: the skip branch also resets the miss streak.
SkipResetsStreak ==
  /\ pc = "loop"
  /\ n \in existing_files
  /\ skipped_count' = skipped_count + 1
  /\ consecutive_missing' = 0
  /\ item' = [item EXCEPT ![n] = "Skipped"]
  /\ NextIteration
  /\ UNCHANGED <<config, output, head_failed, exit_code, start_number, h, existing_files,
                 found_count, uploaded_count, errors_upload,
                 png, tempdir, files, cdn, req, heads, gets, puts>>

\* "if n in existing_files: skipped_count += 1; continue"
Skip ==
  /\ pc = "loop"
  /\ n \in existing_files
  /\ skipped_count' = skipped_count + 1
  /\ item' = [item EXCEPT ![n] = "Skipped"]
  /\ NextIteration
  /\ UNCHANGED <<config, output, head_failed, exit_code, start_number, h, existing_files,
                 consecutive_missing, found_count, uploaded_count, errors_upload,
                 png, tempdir, files, cdn, req, heads, gets, puts>>

\* download_json and the loop's handling of its result (apes-json, hogs-json).
\* session.get is not inside any try of download_json: what it raises leaves
\* the loop.
FetchJson ==
  /\ pc = "loop"
  /\ script # "hogs"
  /\ n \notin existing_files
  /\ \E answer \in GetAnswers :
       LET r == SessionRequest(script, "GET", answer) IN
       /\ req' = Request("GET", n, answer)
       /\ gets' = gets \cup {n}
       /\ IF r.raised
            THEN Raise /\ UNCHANGED <<n, counters, files, item>>
          ELSE IF r.status_code # "200"
            THEN Miss
          ELSE Hit
  /\ UNCHANGED <<config, output, head_failed, start_number, h, existing_files, png, tempdir, cdn,
                 heads, puts>>

\* The image script calls download_png: attempt 0, first gateway.
EnterDownloadPng ==
  /\ pc = "loop"
  /\ script = "hogs"
  /\ n \notin existing_files
  /\ pc' = "png"
  /\ attempt' = 0
  /\ gateway_idx' = 0
  /\ UNCHANGED <<config, output, head_failed, exit_code, start_number, n, h, existing_files, counters,
                 tempdir, files, cdn, item, req, heads, gets, puts>>

\* One session.get of download_png and what follows it: return (True, 200),
\* return (False, 404), or the next gateway / the next attempt / the final
\* return (False, 504).  Every exception is caught inside download_png.
PngGet ==
  /\ pc = "png"
  /\ \E answer \in GetAnswers :
       LET r == SessionRequest(script, "GET", answer) IN
       /\ req' = Request("GET", n, answer)
       /\ gets' = gets \cup {n}
       /\ IF ~r.raised /\ r.status_code = "200"
            THEN Hit /\ UNCHANGED png
          ELSE IF ~r.raised /\ Authoritative404(r.status_code)
            THEN Miss /\ UNCHANGED png
          ELSE IF TriesExhausted(attempt, gateway_idx)
            THEN Miss /\ UNCHANGED png
          ELSE /\ attempt' = NextTry(attempt, gateway_idx)[1]
               /\ gateway_idx' = NextTry(attempt, gateway_idx)[2]
               /\ UNCHANGED <<pc, n, counters, files, item, exit_code>>
  /\ UNCHANGED <<config, output, head_failed, start_number, h, existing_files, tempdir, cdn, heads, puts>>

\* bunny_put and the loop's handling of its result.  session.put is not inside
\* any try: what it raises leaves the loop.  A PUT that timed out may or may
\* not have been stored.
Upload ==
  /\ pc = "put"
  /\ \E answer \in PutAnswers :
       LET r == SessionRequest(script, "PUT", answer) IN
       /\ req' = Request("PUT", n, answer)
       /\ puts' = puts \cup {n}
       /\ \/ /\ answer \in {"200", "201"}
             /\ cdn' = cdn \cup {DestKey(script, n)}
          \/ /\ answer = "timeout"
             /\ cdn' \in {cdn, cdn \cup {DestKey(script, n)}}
          \/ /\ answer \notin {"200", "201", "timeout"}
             /\ cdn' = cdn
       /\ IF r.raised
            THEN Raise /\ UNCHANGED <<n, counters, files, item>>
          ELSE IF PutOk(r.status_code)
            THEN /\ uploaded_count' = uploaded_count + 1
                 /\ files' = IF DEFAULT_DELETE_LOCAL THEN files \ {n} ELSE files
                 /\ item' = [item EXCEPT ![n] = "Uploaded"]
                 /\ NextIteration
                 /\ UNCHANGED <<consecutive_missing, found_count, skipped_count,
                                errors_upload, exit_code>>
          ELSE /\ errors_upload' = errors_upload + 1
               /\ item' = [item EXCEPT ![n] = "UploadFailed"]
               /\ NextIteration
               /\ UNCHANGED <<consecutive_missing, found_count, uploaded_count,
                              skipped_count, files, exit_code>>
  /\ UNCHANGED <<config, output, head_failed, start_number, h, existing_files, png, tempdir, heads, gets>>

\* After the loop: the "Done." line, then rmtree or "Local files kept at".
Finish ==
  /\ pc = "summary"
  /\ IF RemovesTempdir(errors_upload)
       THEN tempdir' = FALSE /\ files' = {}
       ELSE UNCHANGED <<tempdir, files>>
  /\ summary' = [found |-> found_count, uploaded |-> uploaded_count,
                  skipped |-> IF HasCdnCheck(script) THEN skipped_count ELSE 0,
                  upload_errors |-> errors_upload]
  /\ printed' = printed \cup {"Done.",
                                IF RemovesTempdir(errors_upload)
                                  THEN "Local temp files deleted."
                                  ELSE "Local files kept at"}
  /\ pc' = "exit"
  /\ exit_code' = 0
  /\ UNCHANGED <<config, interrupted, head_failed, start_number, n, h, existing_files,
                 counters, png, cdn, item, req, heads, gets, puts>>

\* The same command line is run again against the same destination: a new
\* process, a new temp directory, the storage zone as the first run left it.
Rerun ==
  /\ pc = "exit"
  /\ run = 1
  /\ run' = 2
  /\ first_uploaded' = {i \in Ids : item[i] = "Uploaded"}
  /\ pc' = "main"
  /\ exit_code' = -1
  /\ start_number' = 0
  /\ n' = 0
  /\ h' = 0
  /\ existing_files' = {}
  /\ consecutive_missing' = 0
  /\ found_count' = 0
  /\ uploaded_count' = 0
  /\ skipped_count' = 0
  /\ errors_upload' = 0
  /\ attempt' = 0
  /\ gateway_idx' = 0
  /\ tempdir' = FALSE
  /\ files' = {}
  /\ item' = [i \in Ids |-> "Pending"]
  /\ req' = NoReq
  /\ heads' = {}
  /\ gets' = {}
  /\ puts' = {}
  /\ head_failed' = {}
  /\ printed' = {}
  /\ summary' = NoSummary
  /\ UNCHANGED <<script, args, cdn, interrupted, csvv, keyv>>

Next ==
  \/ Start
  \/ HeadCheck
  \/ Skip
  \/ FetchJson
  \/ EnterDownloadPng
  \/ PngGet
  \/ Upload
  \/ Finish

Spec == Init /\ [][Next]_vars

NextTwice == Next \/ Rerun

\* The two-run specification: a script with an existence check, the check
\* enabled, valid credentials, the range 1..MaxId-1.
InitTwice ==
  /\ Init
  /\ HasCdnCheck(script)
  /\ ~CredentialsMissing(args)
  /\ ~args.skip_cdn_check
  /\ args.resume_from = 0
  /\ args.start_number = 1
  /\ args.end_number = MaxId - 1

SpecTwice == InitTwice /\ [][NextTwice]_vars


\* ------------------------------------------------------------ the CSV script
\* src/csv-to-json-to-cdn-hog.py ("csv").  A cell of a row is a string or None
\* (csv.DictReader fills the columns a short line lacks with None).
None == [kind |-> "None", s |-> <<>>]
StrVal(chars) == [kind |-> "str", s |-> chars]
IntVal(k) == [kind |-> "int", s |-> Str(k)]

\* row.get(key, default)
RowGet(row, key, default) == IF key \in DOMAIN row THEN row[key] ELSE default

\* '"#" in name'
ContainsHash(chars) == \E k \in 1..Len(chars) : chars[k] = "#"

\* Mutant of SplitLast: name.split("#")[0], the part before the first '#'.
SplitFirst(chars) ==
  LET k == CHOOSE j \in 1..Len(chars) :
             chars[j] = "#" /\ \A m \in 1..(j - 1) : chars[m] # "#"
  IN SubSeq(chars, 1, k - 1)

\* name.split("#")[-1]: what follows the last '#' of a name that has one.
SplitLast(chars) ==
  LET k == CHOOSE j \in 1..Len(chars) :
             chars[j] = "#" /\ \A m \in (j + 1)..Len(chars) : chars[m] # "#"
  IN SubSeq(chars, k + 1, Len(chars))

\* str.strip(): leading and trailing blanks removed.
RECURSIVE Strip(_)
Strip(chars) ==
  IF chars = <<>> THEN chars
  ELSE IF Head(chars) = " " THEN Strip(Tail(chars))
  ELSE IF chars[Len(chars)] = " " THEN Strip(SubSeq(chars, 1, Len(chars) - 1))
  ELSE chars

IsDigit(c) == \E d \in 1..10 : Digits[d] = c
DigitValue(c) == (CHOOSE d \in 1..10 : Digits[d] = c) - 1

\* int(chars) succeeds: an optional sign and at least one decimal digit (the
\* names drawn hold no '_' and no other digit characters).
IsIntLiteral(chars) ==
  LET body == IF chars # <<>> /\ Head(chars) \in {"+", "-"} THEN Tail(chars) ELSE chars
  IN body # <<>> /\ \A k \in 1..Len(body) : IsDigit(body[k])

RECURSIVE NatOf(_)
NatOf(digits) ==
  IF digits = <<>> THEN 0
  ELSE 10 * NatOf(SubSeq(digits, 1, Len(digits) - 1)) + DigitValue(digits[Len(digits)])

\* int(chars) of an int literal.
ParseInt(chars) ==
  IF Head(chars) = "-" THEN 0 - NatOf(Tail(chars))
  ELSE IF Head(chars) = "+" THEN NatOf(Tail(chars))
  ELSE NatOf(chars)

Unknown == <<"u", "n", "k", "n", "o", "w", "n">>

\* create_metadata_json: the "edition" of the metadata it returns.  The caller
\* guarantees name is a string ('"#" in name' raises TypeError on None).
Edition(name) ==
  IF ContainsHash(name.s)
    THEN LET edition_str == Strip(SplitLast(name.s)) IN
         IF IsIntLiteral(edition_str) THEN IntVal(ParseInt(edition_str))
         ELSE StrVal(edition_str)
    ELSE StrVal(Unknown)

\* create_metadata_json(row): raises TypeError on a row whose Name is None,
\* else the metadata (every other field is read with row.get and a default,
\* and None is a value json.dumps accepts).
CreateMetadataJson(row) ==
  LET name == RowGet(row, "Name", StrVal(<<>>)) IN
  IF name.kind = "None"
    THEN [raised |-> TRUE, name |-> name, image |-> None, edition |-> None]
    ELSE [raised |-> FALSE, name |-> name,
          image |-> RowGet(row, "Image", StrVal(<<>>)),
          edition |-> Edition(name)]

\* Mutant of EditionStr: the stem is always taken from the name as written,
\* not from str(edition).
EditionStrFromName(row, metadata) ==
  LET name == RowGet(row, "Name", StrVal(<<>>)) IN
  IF ContainsHash(name.s) THEN Strip(SplitLast(name.s)) ELSE Unknown

\* process_nft_row: edition_str, the file name stem of the row.
EditionStr(row, metadata) ==
  LET edition_str == metadata.edition.s IN
  IF metadata.edition.kind = "int" THEN edition_str
  ELSE IF edition_str = <<>> \/ edition_str = Unknown
    THEN LET name == RowGet(row, "Name", StrVal(<<>>)) IN
         IF ContainsHash(name.s) THEN Strip(SplitLast(name.s)) ELSE Unknown
  ELSE edition_str

\* DEFAULT_DEST_PATH = "hog_jsons/" of the CSV script, normalised.
CsvDestPrefix == DestPrefix("hogs_json")

\* dest_key = f"{dest_prefix}{edition_str}.json"
CsvDestKey(edition_str) == Key(CsvDestPrefix, edition_str, Ext("csv"))

\* Names and cells the CSV files of the model are made of.
Hog3642 == <<"H", "O", "G", " ", "#", "3", "6", "4", "2">>
HogNoHash == <<"H", "O", "G", " ", "7">>
HogPadded == <<"H", "O", "G", "#", "0", "7">>
HogSeven == <<"#", " ", "7", " ">>
HogNonInt == <<"H", "#", "x">>

\* The header line: the column order decides which cell a short line lacks.
Headers == {<<"Name", "Image">>, <<"Image", "Name">>}

\* The data lines: two cells, or one (a line that lacks its last column).
Lines == {<<Hog3642, HogSeven>>, <<HogNoHash, HogPadded>>, <<HogNonInt>>}

\* csv.DictReader: one dict per line, keyed by the header, the cells a short
\* line lacks set to None (restval).
DictRow(header, line) ==
  [c \in {header[k] : k \in 1..Len(header)} |->
     LET k == CHOOSE j \in 1..Len(header) : header[j] = c IN
     IF k <= Len(line) THEN StrVal(line[k]) ELSE None]

ReadCsv(header, lines) == [k \in 1..Len(lines) |-> DictRow(header, lines[k])]

CsvFiles ==
  {ReadCsv(header, lines) :
     header \in Headers, lines \in UNION {[1..k -> Lines] : k \in 0..MaxRows}}

\* The command lines of the CSV script.  csv_file: the path names no file, a
\* file open()/DictReader fails on, or a readable file; max_rows = 0 stands
\* for an absent --max-rows (None) as well as for --max-rows 0: both are falsy.
CsvArgsSet ==
  [ storage_zone : {"", "zone"},
    access_key   : {"", "key"},
    csv_file     : {"missing", "unreadable", "ok"},
    start_row    : 0..1,
    max_rows     : 0..1,
    dry_run      : BOOLEAN,
    concurrency  : 1..MaxConcurrency ]

\* rows[start_idx:end_idx] with end_idx = len(rows), or
\* min(start_idx + args.max_rows, len(rows)) "if args.max_rows".
RowsToProcess(rows, a) ==
  LET start_idx == a.start_row
      end_idx == IF a.max_rows # 0
                   THEN (IF start_idx + a.max_rows < Len(rows)
                           THEN start_idx + a.max_rows ELSE Len(rows))
                   ELSE Len(rows)
  IN SubSeq(rows, start_idx + 1, end_idx)

\* Answers the storage API may give a PUT of the CSV script.
CsvPutAnswers == {"200", "403", "500", "timeout"}

NoResult == [success |-> FALSE, identifier |-> None, error |-> "pending"]

\* What no step of the CSV script changes or uses.
ipfsv == <<start_number, n, h, existing_files, counters, png, tempdir, files,
           item, heads, gets, puts, head_failed, run, first_uploaded,
           summary, interrupted, keyv>>

InitCsv ==
  /\ script = "csv"
  /\ args \in CsvArgsSet
  /\ csv_file \in CsvFiles
  /\ pc = "main"
  /\ exit_code = -1
  /\ start_number = 0
  /\ n = 0
  /\ h = 0
  /\ existing_files = {}
  /\ consecutive_missing = 0
  /\ found_count = 0
  /\ uploaded_count = 0
  /\ skipped_count = 0
  /\ errors_upload = 0
  /\ attempt = 0
  /\ gateway_idx = 0
  /\ tempdir = FALSE
  /\ files = {}
  /\ cdn = {}
  /\ item = [i \in Ids |-> "Pending"]
  /\ req = NoReq
  /\ heads = {}
  /\ gets = {}
  /\ puts = {}
  /\ head_failed = {}
  /\ run = 1
  /\ first_uploaded = {}
  /\ printed = {}
  /\ summary = NoSummary
  /\ interrupted = FALSE
  /\ rows_to_process = <<>>
  /\ futures = <<>>
  /\ results = <<>>
  /\ success_count = 0
  /\ error_count = 0
  /\ errors = <<>>
  /\ dest_keys = <<>>
  /\ report = NoReport
  /\ contents = <<>>
  /\ key_ids = <<0, 0>>
  /\ keys = <<>>
  /\ parsed = <<>>

\* main up to the pool: the credentials, the file, the row window, --dry-run.
\* sys.exit(1) on missing credentials, a missing file, an unreadable file.
\* The dry run calls create_metadata_json on the first three rows outside any
\* try.
CsvStart ==
  /\ pc = "main"
  /\ LET rows == RowsToProcess(csv_file, args)
         sample == SubSeq(rows, 1, IF Len(rows) < 3 THEN Len(rows) ELSE 3)
     IN
     IF CredentialsMissing(args) \/ args.csv_file # "ok"
       THEN /\ pc' = "exit"
            /\ exit_code' = 1
            /\ printed' = printed \cup {"ERROR"}
            /\ UNCHANGED <<rows_to_process, results, dest_keys>>
     ELSE IF rows = <<>>
       THEN /\ pc' = "exit"
            /\ exit_code' = 0
            /\ printed' = printed \cup {"No rows to process."}
            /\ rows_to_process' = rows
            /\ UNCHANGED <<results, dest_keys>>
     ELSE IF args.dry_run
       THEN /\ pc' = "exit"
            /\ exit_code' = IF \E k \in 1..Len(sample) : CreateMetadataJson(sample[k]).raised
                              THEN 1 ELSE 0
            /\ printed' = printed \cup {"DRY RUN MODE"}
            /\ rows_to_process' = rows
            /\ UNCHANGED <<results, dest_keys>>
     ELSE /\ pc' = "submit"
          /\ exit_code' = exit_code
          /\ printed' = printed
          /\ rows_to_process' = rows
          /\ results' = [k \in 1..Len(rows) |-> NoResult]
          /\ dest_keys' = [k \in 1..Len(rows) |-> <<>>]
  /\ UNCHANGED <<script, args, csv_file, futures, success_count, error_count,
                 errors, report, cdn, req, contents, ipfsv>>

\* One pool.submit of "for row in rows_to_process": the future is queued.
CsvSubmit ==
  /\ pc = "submit"
  /\ futures' = Append(futures, "queued")
  /\ pc' = IF Len(futures) + 1 = Len(rows_to_process) THEN "collect" ELSE "submit"
  /\ UNCHANGED <<script, args, csv_file, rows_to_process, results, success_count,
                 error_count, errors, dest_keys, report, exit_code, printed, cdn,
                 req, contents, ipfsv>>

\* A worker thread of ThreadPoolExecutor(max_workers=args.concurrency) takes
\* the oldest queued work item.
WorkerTake ==
  /\ \E i \in 1..Len(futures) :
       /\ futures[i] = "queued"
       /\ \A j \in 1..(i - 1) : futures[j] # "queued"
       /\ Cardinality({j \in 1..Len(futures) : futures[j] = "running"}) < args.concurrency
       /\ futures' = [futures EXCEPT ![i] = "running"]
  /\ UNCHANGED <<script, args, csv_file, rows_to_process, results, success_count,
                 error_count, errors, dest_keys, report, pc, exit_code, printed,
                 cdn, req, contents, ipfsv>>

\* process_nft_row's result for row when the PUT of dest_key (if it gets that
\* far) is answered `answer`: (True, edition_str, None), or
\* (False, row.get("Name", "unknown"), str(e)) for whatever was raised inside:
\* create_metadata_json's TypeError, session.put's exception, bunny_put_json's
\* RuntimeError on a status other than 200/201.
ProcessNftRow(row, answer) ==
  LET metadata == CreateMetadataJson(row)
      r == SessionRequest("csv", "PUT", answer)
      failed(e) == [success |-> FALSE,
                    identifier |-> RowGet(row, "Name", StrVal(Unknown)),
                    error |-> e]
  IN
  IF metadata.raised THEN failed("TypeError")
  ELSE IF r.raised THEN failed(answer)
  ELSE IF ~PutOk(r.status_code) THEN failed("RuntimeError")
  ELSE [success |-> TRUE,
        identifier |-> StrVal(EditionStr(row, metadata)),
        error |-> "None"]

\* The storage zone after a PUT of row i to key k was stored: the object at k
\* is replaced, every other object stays.
Put(objects, k, i) ==
  [x \in DOMAIN objects \cup {k} |-> IF x = k THEN i ELSE objects[x]]

\* A worker runs process_nft_row on its row: the metadata, the key, the PUT
\* and its answer; the future is done with the returned tuple.
WorkerProcess ==
  /\ \E i \in 1..Len(futures) :
       /\ futures[i] = "running"
       /\ \E answer \in CsvPutAnswers :
            LET row == rows_to_process[i]
                metadata == CreateMetadataJson(row)
                dest_key == CsvDestKey(EditionStr(row, metadata))
            IN
            /\ results' = [results EXCEPT ![i] = ProcessNftRow(row, answer)]
            /\ IF metadata.raised
                 THEN UNCHANGED <<dest_keys, cdn, req, contents>>
                 ELSE /\ dest_keys' = [dest_keys EXCEPT ![i] = dest_key]
                      /\ req' = Request("PUT", i, answer)
                      /\ \/ /\ answer \in {"200", "201"}
                            /\ cdn' = cdn \cup {dest_key}
                            /\ contents' = Put(contents, dest_key, i)
                         \/ /\ answer = "timeout"
                            /\ \/ cdn' = cdn /\ contents' = contents
                               \/ /\ cdn' = cdn \cup {dest_key}
                                  /\ contents' = Put(contents, dest_key, i)
                         \/ /\ answer \notin {"200", "201", "timeout"}
                            /\ cdn' = cdn
                            /\ contents' = contents
       /\ futures' = [futures EXCEPT ![i] = "done"]
  /\ UNCHANGED <<script, args, csv_file, rows_to_process, success_count,
                 error_count, errors, report, pc, exit_code, printed, ipfsv>>

\* Mutant of AsCompleted: a future already yielded is yielded again.
AsCompletedAgain(futs) == {i \in 1..Len(futs) : futs[i] \in {"done", "yielded"}}

\* as_completed(futures): the futures it can yield next, each finished future
\* once, in the order they finish.
AsCompleted(futs) == {i \in 1..Len(futs) : futs[i] = "done"}

\* One iteration of "for future in as_completed(futures)", in the main thread.
Collect ==
  /\ pc = "collect"
  /\ \E i \in AsCompleted(futures) :
       /\ futures' = [futures EXCEPT ![i] = "yielded"]
       /\ IF results[i].success
            THEN /\ success_count' = success_count + 1
                 /\ UNCHANGED <<error_count, errors>>
            ELSE /\ error_count' = error_count + 1
                 /\ errors' = Append(errors, [identifier |-> results[i].identifier,
                                              error |-> results[i].error])
                 /\ UNCHANGED success_count
       /\ pc' = IF \A j \in 1..Len(futures) : futures'[j] = "yielded"
                  THEN "results" ELSE "collect"
  /\ UNCHANGED <<script, args, csv_file, rows_to_process, results, dest_keys,
                 report, exit_code, printed, cdn, req, contents, ipfsv>>

\* "Processing complete!", the two counts, and the first 10 errors.
CsvResults ==
  /\ pc = "results"
  /\ report' = [uploaded |-> success_count, errors |-> error_count,
                listed |-> IF Len(errors) < 10 THEN Len(errors) ELSE 10]
  /\ printed' = printed \cup {"Processing complete!"}
  /\ pc' = "exit"
  /\ exit_code' = 0
  /\ UNCHANGED <<script, args, csv_file, rows_to_process, futures, results,
                 success_count, error_count, errors, dest_keys, cdn, req, contents, ipfsv>>

NextCsv ==
  \/ CsvStart
  \/ CsvSubmit
  \/ WorkerTake
  \/ WorkerProcess
  \/ Collect
  \/ CsvResults

SpecCsv == InitCsv /\ [][NextCsv]_vars

\* ------------------------------------------------------------ key derivation
\* The ids the key derivation is applied to: --start-number/--end-number are
\* type=int (a negative number parses), and the edition of the docstring's
\* example.
KeyIds == (-1..MaxKeyId) \cup {3642}

\* dest_key of id i as script s derives it: the IPFS scripts from the loop
\* variable n, the CSV script from str(edition) of an int edition.
DeriveKey(s, i) == IF s = "csv" THEN CsvDestKey(IntVal(i).s) ELSE DestKey(s, i)

\* The prefix and the extension script s puts around the id.
PrefixOf(s) == IF s = "csv" THEN CsvDestPrefix ELSE DestPrefix(s)

\* Two ids and a script, nothing derived yet.
InitKey ==
  /\ script \in Scripts \cup {"csv"}
  /\ key_ids \in KeyIds \X KeyIds
  /\ keys = <<>>
  /\ parsed = <<>>
  /\ args = [storage_zone |-> "zone", access_key |-> "key"]
  /\ pc = "main"
  /\ exit_code = -1
  /\ start_number = 0
  /\ n = 0
  /\ h = 0
  /\ existing_files = {}
  /\ consecutive_missing = 0
  /\ found_count = 0
  /\ uploaded_count = 0
  /\ skipped_count = 0
  /\ errors_upload = 0
  /\ attempt = 0
  /\ gateway_idx = 0
  /\ tempdir = FALSE
  /\ files = {}
  /\ cdn = {}
  /\ item = [i \in Ids |-> "Pending"]
  /\ req = NoReq
  /\ heads = {}
  /\ gets = {}
  /\ puts = {}
  /\ head_failed = {}
  /\ run = 1
  /\ first_uploaded = {}
  /\ printed = {}
  /\ summary = NoSummary
  /\ interrupted = FALSE
  /\ csv_file = <<>>
  /\ rows_to_process = <<>>
  /\ futures = <<>>
  /\ results = <<>>
  /\ success_count = 0
  /\ error_count = 0
  /\ errors = <<>>
  /\ dest_keys = <<>>
  /\ report = NoReport
  /\ contents = <<>>

\* What the key derivation leaves alone.
keyrest == <<script, args, exit_code, cdn, req, printed, csvv, start_number, n, h,
             existing_files, counters, png, tempdir, files, item, heads, gets,
             puts, head_failed, run, first_uploaded, summary, interrupted>>

\* dest_key is derived for both ids.
DeriveKeys ==
  /\ pc = "main"
  /\ keys' = <<DeriveKey(script, key_ids[1]), DeriveKey(script, key_ids[2])>>
  /\ pc' = "derived"
  /\ UNCHANGED <<key_ids, parsed, keyrest>>

\* Both keys are stored, a key written twice being one object.
StoreKeys ==
  /\ pc = "derived"
  /\ cdn' = {keys[1], keys[2]}
  /\ pc' = "stored"
  /\ UNCHANGED <<key_ids, keys, parsed, script, args, exit_code, req, printed, csvv,
                 start_number, n, h, existing_files, counters, png, tempdir, files,
                 item, heads, gets, puts, head_failed, run, first_uploaded,
                 summary, interrupted>>

NextKey == DeriveKeys \/ StoreKeys

SpecKey == InitKey /\ [][NextKey]_vars

\* ------------------------------------------------------------ user interrupt
\* Ctrl-C during an IPFS run: KeyboardInterrupt is raised in the main thread
\* at whatever it is doing; no "except Exception" catches it.  In the scan loop
\* and up to the end of the "try:" block, main's "except KeyboardInterrupt"
\* prints "Interrupted by user." and "Local files kept at: {tempdir}" and main
\* returns.  get_existing_files_on_cdn runs before the "try:": there the
\* interrupt leaves main, the interpreter prints the traceback and the process
\* ends on SIGINT (status 130).  A PUT that was being sent may or may not have
\* been stored.  Nothing is removed.
Interrupt ==
  /\ pc \in {"head", "loop", "png", "put", "summary"}
  /\ ~interrupted
  /\ interrupted' = TRUE
  /\ pc' = "exit"
  /\ IF pc = "head"
       THEN /\ exit_code' = 130
            /\ printed' = printed \cup {"Traceback"}
       ELSE /\ exit_code' = 0
            /\ printed' = printed \cup {"Interrupted by user.", "Local files kept at"}
  /\ IF pc = "put"
       THEN cdn' \in {cdn, cdn \cup {DestKey(script, n)}}
       ELSE cdn' = cdn
  /\ UNCHANGED <<config, summary, head_failed, start_number, n, h, existing_files,
                 counters, png, tempdir, files, item, req, heads, gets, puts>>

NextInterrupt == Next \/ Interrupt

SpecInterrupt == Init /\ [][NextInterrupt]_vars

\* ------------------------------------------------------------ properties
Max(S) == CHOOSE x \in S : \A y \in S : y <= x

\* The GET of item i returned 200 (the item was written to the temp directory).
FoundAtSource(i) == item[i] \in {"Fetched", "Uploaded", "UploadFailed"}

\* The scan loop started its iteration for item i.
LoopReached(i) == i \in gets \/ item[i] = "Skipped"

\* The miss streak is zero when the loop reaches k: no id was fetched before k,
\* or the nearest fetched id below k was found at the source.
ZeroStreakAt(k) ==
  LET prev == {i \in start_number..(k - 1) : item[i] # "Skipped"} IN
  prev = {} \/ FoundAtSource(Max(prev))

\* Every id >= k misses at the source, as far as the run has asked: each fetch
\* of such an id came back as a miss, or is still trying gateways.
MissesFrom(k) ==
  \A i \in k..args.end_number :
    i \in gets => item[i] = "Missing" \/ (pc = "png" /\ n = i)

\* C1 as stated, in the case most favourable to it (the loop reaches k with a
\* miss streak of zero): if every id >= k misses at the source and
\* max_missing < end - k, the run halts at id k + max_missing - 1 and no id
\* greater than k + max_missing - 1 is ever fetched.
C1_Original ==
  \A k \in args.start_number..args.end_number :
    ( /\ LoopReached(k)
      /\ ZeroStreakAt(k)
      /\ args.max_missing < args.end_number - k
      /\ MissesFrom(k) )
    => /\ \A i \in gets : i <= k + args.max_missing - 1
       /\ pc = "exit" => n = k + args.max_missing - 1

\* C1 amended: for every k of the scanned range and 1 <= max_missing < end - k,
\* if the loop reaches k with a miss streak of zero, none of the ids
\* k..k+max_missing-1 is skipped as already on the CDN, and every id >= k misses
\* at the source, then no id greater than k + max_missing - 1 is ever fetched and
\* the run halts at id k + max_missing - 1 (normal exit, after exactly
\* max_missing misses k..k+max_missing-1).
C1_ConsecutiveMissStop ==
  \A k \in {j \in Ids : start_number <= j /\ j <= args.end_number} :
    ( /\ LoopReached(k)
      /\ ZeroStreakAt(k)
      /\ 1 <= args.max_missing
      /\ args.max_missing < args.end_number - k
      /\ \A i \in k..(k + args.max_missing - 1) : i \notin existing_files
      /\ MissesFrom(k) )
    => /\ \A i \in gets : i <= k + args.max_missing - 1
       /\ pc = "exit" =>
            /\ exit_code = 0
            /\ n = k + args.max_missing - 1
            /\ \A i \in k..(k + args.max_missing - 1) : item[i] = "Missing"
            /\ \A i \in (k + args.max_missing)..args.end_number : item[i] = "Pending"

\* A run that found item 1, then missed from k = 2 on and halted there with
\* ids left unscanned.
C1_Witness ==
  /\ pc = "exit"
  /\ exit_code = 0
  /\ start_number = 1
  /\ item[1] = "Uploaded"
  /\ item[2] = "Missing"
  /\ n = 2
  /\ args.max_missing = 1
  /\ args.end_number = MaxId
  /\ existing_files = {}

\* C2 as stated: with existence checking enabled, the second run issues no PUT
\* for any item whose upload succeeded in the first run.
C2_Original ==
  run = 2 => \A i \in first_uploaded : i \notin puts

\* The HEAD of item i was issued and answered 200.
HeadConfirmed(i) == i \in heads /\ i \notin head_failed

\* C2 amended: in the second run, an item whose upload succeeded in the first
\* run and whose HEAD is answered 200 gets no GET and no PUT and is Skipped when
\* the loop reaches it; for hogs-json, whose HEAD asks the storage API for the
\* key the PUT wrote, the HEAD of such an item is never answered 404 (it is
\* answered 200 unless the HEAD itself fails).
C2_Idempotent ==
  run = 2 =>
    /\ \A i \in first_uploaded :
         HeadConfirmed(i) =>
           /\ i \in existing_files
           /\ i \notin gets
           /\ i \notin puts
           /\ item[i] \in {"Pending", "Skipped"}
           /\ (pc \in {"loop", "png", "put"} /\ i < n) => item[i] = "Skipped"
    /\ (script = "hogs_json" /\ req.kind = "HEAD" /\ req.id \in first_uploaded)
         => req.answer # "404"
    /\ (script = "hogs_json" /\ req.kind = "HEAD" /\ req.id \in first_uploaded
        /\ req.answer = "200") => req.id \in existing_files

\* The second hogs-json run ended having skipped an item the first run uploaded.
C2_Witness ==
  /\ run = 2
  /\ script = "hogs_json"
  /\ pc = "exit"
  /\ exit_code = 0
  /\ \E i \in first_uploaded : item[i] = "Skipped" /\ HeadConfirmed(i)

\* C3 as stated: whenever the destination answers an item's PUT with a failure
\* status, the item is counted as an upload error and the run is not halted.
C3_Original ==
  (req.kind = "PUT" /\ req.answer \in {"403", "500"})
    => /\ item[req.id] = "UploadFailed"
       /\ errors_upload >= 1
       /\ exit_code # 1

\* C4 as stated: a fetch that ends in a timeout, a connection error or a 5xx
\* does not abort the run, and the item is recorded as a miss once the fetch
\* has given up.
C4_Original ==
  (req.kind = "GET" /\ req.answer \in {"timeout", "connerr", "500"})
    => /\ exit_code # 1
       /\ (pc # "png" \/ n # req.id) => item[req.id] = "Missing"

\* C5 as stated: no item outside [--start-number, --end-number] is ever
\* checked, fetched or uploaded.
C5_Original ==
  \A i \in heads \cup gets \cup puts :
    args.start_number <= i /\ i <= args.end_number

\* C6 as stated: each item the loop reached ends in exactly one terminal state,
\* a PUT is only issued for an item whose fetch succeeded, and a Skipped or
\* Missing item is never fetched resp. uploaded.
C6_Original ==
  /\ pc = "exit" => \A i \in Ids : LoopReached(i) => item[i] \in Terminal
  /\ \A i \in puts : FoundAtSource(i)
  /\ \A i \in Ids : item[i] = "Skipped" => i \notin gets \cup puts
  /\ \A i \in Ids : item[i] = "Missing" => i \notin puts

\* C7: in download_png the first 404 ends the fetch of the item as a miss with
\* nothing further tried, while a timeout, a connection error or any other
\* non-200 status is followed by the next gateway of the same attempt, after the
\* last gateway by the first gateway of the next attempt, and after the last
\* gateway of the last attempt by a miss.
C7_404Authoritative ==
  (script = "hogs" /\ req.kind = "GET") =>
    LET last == req.gateway_idx = NumGateways - 1
                /\ req.attempt = DEFAULT_MAX_RETRIES - 1
    IN
    /\ req.answer = "404" =>
         /\ item[req.id] = "Missing"
         /\ ~(pc = "png" /\ n = req.id)
    /\ (req.answer \notin {"200", "404"} /\ ~last) =>
         /\ pc = "png"
         /\ n = req.id
         /\ item[req.id] = "Pending"
         /\ IF req.gateway_idx < NumGateways - 1
              THEN attempt = req.attempt /\ gateway_idx = req.gateway_idx + 1
              ELSE attempt = req.attempt + 1 /\ gateway_idx = 0
    /\ (req.answer \notin {"200", "404"} /\ last) => item[req.id] = "Missing"

\* A 404 received on the second attempt from the second gateway, after four
\* transient failures, ended the fetch.
C7_Witness ==
  /\ script = "hogs"
  /\ req.kind = "GET"
  /\ req.answer = "404"
  /\ req.attempt = 1
  /\ req.gateway_idx = 1
  /\ item[req.id] = "Missing"

\* C8: an item whose HEAD raised or returned another status than 200 counts as
\* not present: it is not in existing_files, it is never skipped, and the loop
\* fetches it when it gets there; and no HEAD ever aborts the run.
C8_BestEffortCheck ==
  /\ \A i \in head_failed :
       /\ i \notin existing_files
       /\ item[i] # "Skipped"
       /\ (pc \in {"loop", "png", "put"} /\ i < n) => i \in gets
       /\ (pc = "put" /\ i = n) => i \in gets
  /\ req.kind = "HEAD" => exit_code # 1
  /\ pc = "head" => exit_code = -1

\* Item 2, already stored, whose HEAD failed all the same, was fetched and
\* uploaded.
C8_Witness ==
  /\ req.kind = "PUT"
  /\ req.id \in head_failed
  /\ item[req.id] = "Uploaded"
  /\ script = "hogs_json"
  /\ DestKey(script, req.id) \in cdn
  /\ req.id = 2
  /\ cdn = {DestKey(script, 2)}

\* C9: whenever an upload failed, the temp directory is not removed and the
\* local copy of every item whose upload failed still exists; the directory is
\* removed only when no upload failed.
C9_TempKeptOnFailure ==
  /\ \A i \in Ids :
       (item[i] = "UploadFailed" \/ (i \in puts /\ item[i] = "Fetched"))
         => tempdir /\ i \in files
  /\ (exit_code = 0 /\ ~tempdir) =>
       /\ errors_upload = 0
       /\ \A i \in Ids : item[i] # "UploadFailed"

\* A finished run with one upload failed and another succeeded kept its files.
C9_Witness ==
  /\ pc = "exit"
  /\ exit_code = 0
  /\ tempdir
  /\ \E i, j \in Ids : item[i] = "UploadFailed" /\ item[j] = "Uploaded" /\ i < j

\* C10 as stated: a run exits with code 1 exactly when the credentials are
\* missing, and then before any request was issued.
C10_Original ==
  pc = "exit" =>
    /\ exit_code = 1 <=> CredentialsMissing(args)
    /\ CredentialsMissing(args) => heads \cup gets \cup puts = {}

\* The row's Name as create_metadata_json reads it.
NameOf(row) == RowGet(row, "Name", StrVal(<<>>))

\* Rows whose future is done: process_nft_row returned for them.
Processed == {i \in 1..Len(futures) : futures[i] \in {"done", "yielded"}}

Key3642 == <<"h", "o", "g", "_", "j", "s", "o", "n", "s", "/",
             "3", "6", "4", "2", ".", "j", "s", "o", "n">>
KeyUnknown == <<"h", "o", "g", "_", "j", "s", "o", "n", "s", "/",
                "u", "n", "k", "n", "o", "w", "n", ".", "j", "s", "o", "n">>

\* C11: in the CSV script a row named "HOG #3642" is PUT to
\* hog_jsons/3642.json and, the PUT accepted, returned as success "3642"; a
\* row whose name has no '#' is PUT to hog_jsons/unknown.json (it is not
\* dropped, nothing is raised for it) and, the PUT accepted, returned as
\* success "unknown"; an accepted PUT stores the key, and every success
\* collected is counted in success_count and adds no entry to errors.
C11_EditionFromName ==
  /\ \A i \in Processed :
       LET name == NameOf(rows_to_process[i]) IN
       /\ (name.kind = "str" /\ name.s = Hog3642) =>
            /\ dest_keys[i] = Key3642
            /\ results[i].success => results[i].identifier = StrVal(<<"3", "6", "4", "2">>)
       /\ (name.kind = "str" /\ ~ContainsHash(name.s)) =>
            /\ dest_keys[i] = KeyUnknown
            /\ results[i].error # "TypeError"
            /\ results[i].success => results[i].identifier = StrVal(Unknown)
  /\ (script = "csv" /\ req.kind = "PUT") =>
       /\ req.id \in Processed
       /\ req.answer \in {"200", "201"} =>
            results[req.id].success /\ dest_keys[req.id] \in cdn
  /\ script = "csv" =>
       /\ success_count =
            Cardinality({i \in 1..Len(futures) : futures[i] = "yielded" /\ results[i].success})
       /\ Len(errors) =
            Cardinality({i \in 1..Len(futures) : futures[i] = "yielded" /\ ~results[i].success})

\* A finished run of two rows, "HOG #3642" and "HOG 7", both uploaded and
\* counted: 3642.json and unknown.json are stored.
C11_Witness ==
  /\ script = "csv"
  /\ pc = "exit"
  /\ report = [uploaded |-> 2, errors |-> 0, listed |-> 0]
  /\ Len(rows_to_process) = 2
  /\ NameOf(rows_to_process[1]).s = Hog3642
  /\ NameOf(rows_to_process[2]).s = HogNoHash
  /\ cdn = {Key3642, KeyUnknown}
  /\ dest_keys = <<Key3642, KeyUnknown>>

\* The id read back from a key: the prefix p and "." + e taken off, int() of
\* what is left.
ParseKey(p, k, e) == ParseInt(SubSeq(k, Len(p) + 1, Len(k) - Len(e) - 1))

\* C12: the key derived for id n is prefix + str(n) + "." + extension (id 3642
\* under hog_jsons/ with extension json gives hog_jsons/3642.json), reading the
\* id back from the key gives n, and two different ids never derive the same
\* key: the stored objects are as many as the ids are different.
C12_KeyRoundTrip ==
  pc \in {"derived", "stored"} =>
    /\ \A k \in 1..2 :
         /\ ParseKey(PrefixOf(script), keys[k], Ext(script)) = key_ids[k]
         /\ SubSeq(keys[k], 1, Len(PrefixOf(script))) = PrefixOf(script)
         /\ (key_ids[k] = 3642 /\ script \in {"hogs_json", "csv"}) => keys[k] = Key3642
    /\ key_ids[1] # key_ids[2] => keys[1] # keys[2]
    /\ pc = "stored" => Cardinality(cdn) = Cardinality({key_ids[1], key_ids[2]})

\* Ids 2 and 12, which end in the same digit, and id 3642 with a negative id,
\* were stored under two keys each.
C12_Witness ==
  /\ pc = "stored"
  /\ key_ids \in {<<2, 12>>, <<3642, -1>>}
  /\ script = "hogs_json"
  /\ Cardinality(cdn) = 2

\* C13 as stated: once the user has interrupted the run, the run is over with
\* nothing further started, the summary of the outcome counts was printed and
\* the place of the temporary files was stated.
C13_Original ==
  interrupted =>
    /\ pc = "exit"
    /\ "Local files kept at" \in printed
    /\ "Done." \in printed
    /\ summary # NoSummary

\* Rows whose future the collection loop has taken from as_completed.
Yielded == {i \in 1..Len(futures) : futures[i] = "yielded"}

\* C14: in every state of every interleaving of the pool, the two counters
\* together count exactly the futures the collection loop has taken, one
\* outcome each (a success in success_count, a failure in error_count and as
\* one entry of errors); once the loop is over every submitted row was taken,
\* so success_count + error_count = len(rows_to_process), len(errors) =
\* error_count, and the printed counts are these.
C14_OneOutcomePerRow ==
  script = "csv" =>
    /\ success_count = Cardinality({i \in Yielded : results[i].success})
    /\ error_count = Cardinality({i \in Yielded : ~results[i].success})
    /\ success_count + error_count = Cardinality(Yielded)
    /\ Len(errors) = error_count
    /\ \A i \in Yielded :
         ~results[i].success =>
           \E k \in 1..Len(errors) :
             errors[k] = [identifier |-> results[i].identifier,
                          error |-> results[i].error]
    /\ pc = "results" \/ report # NoReport =>
         /\ Len(futures) = Len(rows_to_process)
         /\ Yielded = 1..Len(rows_to_process)
         /\ success_count + error_count = Len(rows_to_process)
    /\ report # NoReport =>
         /\ report.uploaded = success_count
         /\ report.errors = error_count
         /\ report.uploaded + report.errors = Len(rows_to_process)

\* Two workers, two rows, the second row's failure collected before the first
\* row's, a finished run reporting 0 + 2 = 2.
C14_Witness ==
  /\ script = "csv"
  /\ pc = "exit"
  /\ args.concurrency = 2
  /\ Len(rows_to_process) = 2
  /\ report = [uploaded |-> 0, errors |-> 2, listed |-> 2]
  /\ results[1].error = "RuntimeError"
  /\ results[2].error = "timeout"
  /\ errors[1].error = "timeout"

\* C15 as stated, for the image script started with its credentials: the fetch
\* of one item issues at most max_retries x (number of gateways) GETs, and a
\* run that has ended has printed its final summary.
C15_Original ==
  (script = "hogs" /\ ~CredentialsMissing(args)) =>
    /\ req.kind = "GET" =>
         req.attempt * NumGateways + req.gateway_idx + 1
           <= DEFAULT_MAX_RETRIES * NumGateways
    /\ pc = "exit" => "Done." \in printed /\ summary # NoSummary

\* The line of the row was shorter than the header: a column has no cell.
MissingFields(row) == \E c \in DOMAIN row : row[c].kind = "None"

\* C16 as stated: a row that lacks a field is returned as a failure, no PUT is
\* issued for it, it ends in errors and not in success_count, and the run
\* still takes every other row to its outcome.
C16_Original ==
  script = "csv" =>
    /\ \A i \in Processed :
         MissingFields(rows_to_process[i]) =>
           /\ ~results[i].success
           /\ dest_keys[i] = <<>>
           /\ dest_keys[i] \notin cdn
    /\ report # NoReport =>
         /\ Yielded = 1..Len(rows_to_process)
         /\ report.errors >=
              Cardinality({i \in Yielded : MissingFields(rows_to_process[i])})

\* The miss streak the outcomes of the ids start_number..k define: the number
\* of misses since the last id found at the source, skipped ids left out.
RECURSIVE Streak(_)
Streak(k) ==
  IF k < start_number THEN 0
  ELSE IF item[k] = "Skipped" THEN Streak(k - 1)
  ELSE IF item[k] = "Missing" THEN 1 + Streak(k - 1)
  ELSE 0

\* While the loop works on id n: every id below n is in its terminal state, no
\* id above n has been fetched or uploaded, and no item but n is in flight.
OneInFlight ==
  /\ pc \in {"loop", "png", "put"} =>
       /\ \A i \in start_number..(n - 1) : item[i] \in Terminal
       /\ item[n] = IF pc = "put" THEN "Fetched" ELSE "Pending"
       /\ \A i \in (n + 1)..args.end_number :
            item[i] = "Pending" /\ i \notin gets \cup puts
  /\ \A i \in Ids : item[i] = "Fetched" => i = n

\* The decision taken after id n is a function of the outcomes of the ids
\* start_number..n: the counter is their streak, the loop goes on to n + 1
\* exactly when that streak is below max_missing, and a run that halted before
\* the end of the range has looked at no id above n.
DecisionFromPast ==
  /\ pc = "loop" => consecutive_missing = Streak(n - 1) /\ Streak(n - 1) < args.max_missing
  /\ (pc = "summary" /\ start_number <= args.end_number) =>
       /\ consecutive_missing = Streak(n)
       /\ n < args.end_number <=> Streak(n) >= args.max_missing /\ n # args.end_number
       /\ n < args.end_number => item[n] = "Missing"
       /\ \A i \in (n + 1)..args.end_number :
            item[i] = "Pending" /\ i \notin gets \cup puts

\* A GET is issued for a new id only above every id fetched before, and only
\* once every id fetched before is in its terminal state.
AscendingFetch ==
  \A i \in gets' \ gets : \A j \in gets : j < i /\ item[j] \in Terminal

\* C17: the IPFS scripts fetch ids in strictly ascending order, one item at a
\* time (the GET of a later id is issued only after every earlier id reached
\* its terminal state), and whether the loop stops after id n is decided by the
\* outcomes of the ids up to n alone.
C17_Sequential ==
  /\ [](OneInFlight /\ DecisionFromPast)
  /\ [][AscendingFetch]_vars

\* The loop is about to fetch id 4 after a miss at 1, a skip of 2 and a hit at 3.
C17_Witness ==
  /\ script = "hogs_json"
  /\ pc = "loop"
  /\ n = 4
  /\ item[1] = "Missing"
  /\ item[2] = "Skipped"
  /\ item[3] = "UploadFailed"
  /\ gets = {1, 3}

\* A step in which the fetch of id n ends as a miss / as a hit, and a step in
\* which the upload of id n ends.
MissStep == n \in Ids /\ item[n] = "Pending" /\ item'[n] = "Missing"
HitStep == n \in Ids /\ item[n] = "Pending" /\ item'[n] = "Fetched"
UploadEnds ==
  n \in Ids /\ item[n] = "Fetched" /\ item'[n] \in {"Uploaded", "UploadFailed"}

\* What each kind of step does to the counter, and when the loop is left.
CounterSteps ==
  /\ MissStep =>
       /\ consecutive_missing' = consecutive_missing + 1
       /\ consecutive_missing' >= args.max_missing => pc' = "summary" /\ n' = n
       /\ (consecutive_missing' < args.max_missing /\ n < args.end_number) =>
            pc' = "loop" /\ n' = n + 1
  /\ HitStep => consecutive_missing' = 0
  /\ UploadEnds => consecutive_missing = 0 /\ consecutive_missing' = 0
  /\ (pc \in {"loop", "png", "put"} /\ consecutive_missing' # consecutive_missing)
       => MissStep \/ HitStep

\* C18: a miss adds one to consecutive_missing, a hit sets it to zero and it
\* is still zero when the upload of that hit has ended, failed or not; while
\* the loop is in an iteration the counter is below max_missing, it never
\* exceeds max_missing, and the loop is left in the very step that takes the
\* counter to max_missing.
C18_CounterRule ==
  /\ [](/\ pc \in {"loop", "png", "put"} => consecutive_missing < args.max_missing
        /\ consecutive_missing <= args.max_missing
        /\ consecutive_missing >= args.max_missing =>
             pc \in {"summary", "exit"} /\ item[n] = "Missing"
        /\ \A i \in Ids :
             (item[i] = "UploadFailed" /\ i = n /\ pc \in {"loop", "summary", "exit"})
               => consecutive_missing = 0)
  /\ [][CounterSteps]_vars

\* The run halted at id 3 with max_missing = 2: the hit at 1, whose upload
\* failed, had reset the counter, the misses at 2 and 3 took it to 2.
C18_Witness ==
  /\ script = "apes_json"
  /\ args.max_missing = 2
  /\ args.end_number = 4
  /\ pc = "summary"
  /\ n = 3
  /\ consecutive_missing = 2
  /\ item[1] = "UploadFailed"
  /\ item[2] = "Missing"
  /\ item[3] = "Missing"

\* A step in which id n is skipped as already on the destination.
SkipStep == n \in Ids /\ item[n] = "Pending" /\ item'[n] = "Skipped"

\* C19: skipping an id leaves consecutive_missing as it was and never ends the
\* scan (the loop goes on to n + 1 unless n is the end of the range); the
\* counter is the number of misses since the last hit with the skipped ids in
\* between left out, so a run that halted before the end of its range halted
\* on a miss whose streak, skipped ids left out, is max_missing.
C19_SkipNeutral ==
  /\ [][SkipStep =>
          /\ consecutive_missing' = consecutive_missing
          /\ skipped_count' = skipped_count + 1
          /\ n \notin gets' \cup puts'
          /\ IF n < args.end_number
               THEN pc' = "loop" /\ n' = n + 1
               ELSE pc' = "summary"]_vars
  /\ [](/\ \A i \in Ids : item[i] = "Skipped" => i \in existing_files
        /\ (pc = "summary" /\ start_number <= args.end_number) =>
             /\ consecutive_missing = Streak(n)
             /\ n < args.end_number =>
                  /\ item[n] = "Missing"
                  /\ Streak(n) = args.max_missing)

\* max_missing = 2: the misses at 1 and 3, with id 2 skipped between them,
\* halted the run at 3.
C19_Witness ==
  /\ script = "hogs_json"
  /\ args.max_missing = 2
  /\ args.end_number = 4
  /\ pc = "summary"
  /\ n = 3
  /\ item[1] = "Missing"
  /\ item[2] = "Skipped"
  /\ item[3] = "Missing"
  /\ consecutive_missing = 2

\* Outcomes of the run so far, counted from the per-item history.
Count(states) == Cardinality({i \in Ids : item[i] \in states})

\* Ids the loop has been through when it stands at an iteration boundary.
Visited ==
  IF start_number > args.end_number THEN 0
  ELSE IF pc = "loop" THEN n - start_number
  ELSE n - start_number + 1

\* C20: whenever the scan loop of an IPFS script stands between two iterations
\* (at the head of the loop, or just after leaving it), found_count =
\* uploaded_count + errors_upload and skipped_count + found_count + the number
\* of misses = the number of ids visited, each counter being the number of
\* items with that outcome; and the "Done." line prints these counters.
C20_CountsAddUp ==
  /\ pc \in {"loop", "summary"} =>
       /\ found_count = uploaded_count + errors_upload
       /\ skipped_count + found_count + Count({"Missing"}) = Visited
       /\ found_count = Count({"Uploaded", "UploadFailed"})
       /\ uploaded_count = Count({"Uploaded"})
       /\ errors_upload = Count({"UploadFailed"})
       /\ skipped_count = Count({"Skipped"})
  /\ pc = "put" => found_count = uploaded_count + errors_upload + 1
  /\ (script \in Scripts /\ summary # NoSummary) =>
       /\ "Done." \in printed
       /\ summary = [found |-> found_count, uploaded |-> uploaded_count,
                     skipped |-> skipped_count, upload_errors |-> errors_upload]
       /\ summary.found = summary.uploaded + summary.upload_errors
       /\ summary.skipped + summary.found + Count({"Missing"}) = n - start_number + 1
            \/ start_number > args.end_number

\* A finished run over ids 1..4: a miss, a skip, an upload and a failed
\* upload, reported as Found 2, Uploaded 1, Skipped 1, Upload errors 1.
C20_Witness ==
  /\ script = "hogs_json"
  /\ pc = "exit"
  /\ start_number = 1
  /\ n = 4
  /\ summary = [found |-> 2, uploaded |-> 1, skipped |-> 1, upload_errors |-> 1]
  /\ Count({"Missing"}) = 1

\* The processed rows, each with the metadata create_metadata_json derives
\* from it.
Derived == {<<i, CreateMetadataJson(rows_to_process[i])>> : i \in Processed}

\* Those for which process_nft_row got as far as the PUT.
PutIssued == {p \in Derived : ~p[2].raised}

\* A step that changes what is stored is the PUT of one row, answered 200/201
\* or not answered in time, and leaves that row's object at that row's key
\* (whatever was there before, and whichever row comes later in the file).
StoreStep ==
  contents' # contents =>
    /\ req'.kind = "PUT"
    /\ req'.answer \in {"200", "201", "timeout"}
    /\ futures[req'.id] = "running" /\ futures'[req'.id] = "done"
    /\ contents' = Put(contents, dest_keys'[req'.id], req'.id)

\* C21: rows that derive the same edition are PUT to the same key (rows
\* without '#' all to hog_jsons/unknown.json) and each of them whose PUT is
\* accepted is returned and counted as a success; the object at a key is the
\* one of the row whose PUT was stored last: after an accepted PUT it is that
\* row's, and only a later stored PUT to the same key replaces it.
C21_LastPutWins ==
  /\ [](script = "csv" =>
          LET issued == PutIssued
              rows == {p[1] : p \in issued}
          IN
          /\ \A p, q \in issued :
               p[2].edition = q[2].edition => dest_keys[p[1]] = dest_keys[q[1]]
          /\ \A i \in rows :
               ~ContainsHash(NameOf(rows_to_process[i]).s) => dest_keys[i] = KeyUnknown
          /\ DOMAIN contents = cdn
          /\ \A k \in cdn :
               /\ contents[k] \in rows
               /\ dest_keys[contents[k]] = k
          /\ \A i \in rows : results[i].success => dest_keys[i] \in cdn
          /\ (req.kind = "PUT" /\ req.answer \in {"200", "201"}) =>
               /\ results[req.id].success
               /\ contents[dest_keys[req.id]] = req.id
          /\ success_count = Cardinality({i \in Yielded : results[i].success}))
  /\ [][StoreStep]_vars

\* Two rows without '#', two workers: both PUTs to hog_jsons/unknown.json were
\* accepted and counted, the PUT of the second row was stored first, and the
\* object left is the first row's.
C21_Witness ==
  /\ script = "csv"
  /\ pc = "exit"
  /\ args.concurrency = 2
  /\ Len(rows_to_process) = 2
  /\ \A i \in 1..2 : NameOf(rows_to_process[i]).s = HogNoHash
  /\ report = [uploaded |-> 2, errors |-> 0, listed |-> 0]
  /\ cdn = {KeyUnknown}
  /\ contents[KeyUnknown] = 1
  /\ req.id = 1

====
